---------------------------- MODULE Spec2Model ----------------------------
(***************************************************************************)
(* rxor-tools: the codecs (hex, base64, ASCII <-> raw bytes) of            *)
(* encodings.rs and the repeating-key XOR tools (xor, find_key_len) of     *)
(* lib.rs.                                                                 *)
(*                                                                         *)
(* Text is a sequence of Unicode code points (Rust's String::chars()), a   *)
(* Raw buffer a sequence of bytes 0..255.  u8 arithmetic is kept modulo    *)
(* 2^8.  A panic is the value kind "Panic".                                *)
(***************************************************************************)
EXTENDS Integers, Sequences, FiniteSets, TLC

VARIABLES
    hist,          \* codec: the values held so far, the last one is current
    ops,           \* codec: the names of the operations applied so far
    b64,           \* Base64::decode loop: the string being decoded
    bpc,           \* Base64::decode loop: position in the code
    idx,           \* Base64::decode loop: characters consumed so far
    dst,           \* Base64::decode loop: [v, bit_index, working_byte, panic]
    seq,           \* cipher: the sequence (plaintext)
    key,           \* cipher: the key
    llim,          \* cipher: lower limit of the key length search
    hlim,          \* cipher: upper limit of the key length search
    cur,           \* cipher: the value the last operation returned
    calls,         \* cipher: the names of the operations applied so far
    lhs,           \* hamming: left operand
    rhs,           \* hamming: right operand
    dist           \* hamming: results of the calls made

codecVars  == <<hist, ops>>
decVars    == <<b64, bpc, idx, dst>>
cipherVars == <<seq, key, llim, hlim, cur, calls>>
hamVars    == <<lhs, rhs, dist>>
vars       == <<hist, ops, b64, bpc, idx, dst, seq, key, llim, hlim, cur,
                calls, lhs, rhs, dist>>

---------------------------------------------------------------------------
(* Bounds of the model.                                                    *)

MaxText == 4       \* longest input text (characters)
MaxBuf == 3        \* longest input buffer drawn from SampleBytes
MaxOps == 3        \* operations applied in a row to one value
MaxSeq == 7        \* longest plaintext drawn from CipherBytes
MaxKey == 2        \* longest key drawn from KeyBytes
MaxLow == 2        \* largest lower limit of a search range
MaxSpan == 4       \* largest short search range (hlim - llim)
MaxHamLen == 2     \* longest operand of hamming drawn from HamBytes

(* Characters of the input texts: '0' 'A' 'f' '=' '-' and U+00E9.          *)
TextChars == {48, 65, 102, 61, 45, 233}

(* Bytes of the input buffers longer than one byte.                        *)
SampleBytes == {0, 77, 200, 255}

RECURSIVE SeqsUpTo(_, _)
SeqsUpTo(S, n) ==
    IF n = 0 THEN {<<>>}
    ELSE LET shorter == SeqsUpTo(S, n - 1)
         IN  shorter \cup {Append(s, x) : s \in {t \in shorter : Len(t) = n - 1}, x \in S}

---------------------------------------------------------------------------
(* u8 bit operations.                                                      *)

RECURSIVE BitAnd(_, _)
BitAnd(a, b) ==
    IF a = 0 \/ b = 0 THEN 0
    ELSE ((a % 2) * (b % 2)) + (2 * BitAnd(a \div 2, b \div 2))

RECURSIVE BitOr(_, _)
BitOr(a, b) ==
    IF a = 0 THEN b
    ELSE IF b = 0 THEN a
    ELSE (IF a % 2 = 1 \/ b % 2 = 1 THEN 1 ELSE 0) + (2 * BitOr(a \div 2, b \div 2))

RECURSIVE BitXor(_, _)
BitXor(a, b) ==
    IF a = 0 THEN b
    ELSE IF b = 0 THEN a
    ELSE (IF a % 2 = b % 2 THEN 0 ELSE 1) + (2 * BitXor(a \div 2, b \div 2))

Shl8(a, n) == (a * 2^n) % 256

Shr(a, n) == a \div 2^n

---------------------------------------------------------------------------
(* Values.                                                                 *)

Val(k, d) == [kind |-> k, data |-> d]

NoneVal == Val("None", <<>>)

PanicVal == Val("Panic", <<>>)

(* String::into_bytes: the UTF-8 encoding of the text.                     *)
Utf8(c) ==
    IF c < 128 THEN <<c>>
    ELSE IF c < 2048 THEN <<192 + (c \div 64), 128 + (c % 64)>>
    ELSE <<224 + (c \div 4096), 128 + ((c \div 64) % 64), 128 + (c % 64)>>

RECURSIVE IntoBytes(_)
IntoBytes(s) == IF s = <<>> THEN <<>> ELSE Utf8(Head(s)) \o IntoBytes(Tail(s))

(* String::len: the length in bytes.                                       *)
StrLen(s) == Len(IntoBytes(s))

(* str::is_ascii                                                           *)
IsAscii(s) == \A i \in 1..Len(s) : s[i] < 128

---------------------------------------------------------------------------
(* ASCII                                                                   *)

AsciiNew(s) == IF IsAscii(s) THEN Val("Ascii", s) ELSE NoneVal

AsciiDecode(s) == Val("Raw", IntoBytes(s))

(* s.push(b as char): the character with code point b                      *)
AsciiEncode(raw) == Val("Ascii", [i \in 1..Len(raw) |-> raw[i]])

---------------------------------------------------------------------------
(* Hex                                                                     *)

HexIs(c) ==
    \/ 97 <= c /\ c <= 102       \* 'a'..='f'
    \/ 65 <= c /\ c <= 70        \* 'A'..='F'
    \/ 48 <= c /\ c <= 57        \* '0'..='9'

HexStringIs(s) == \A i \in 1..Len(s) : HexIs(s[i])

HexNew(s) == IF HexStringIs(s) THEN Val("Hex", s) ELSE NoneVal

(* -1 stands for the panic of the last arm                                 *)
HexToU8(c) ==
    IF 97 <= c /\ c <= 102 THEN c - 97 + 10
    ELSE IF 65 <= c /\ c <= 70 THEN c - 65 + 10
    ELSE IF 48 <= c /\ c <= 57 THEN c - 48
    ELSE -1

(* HexFromU8 with uppercase letters for the digits 10 to 15                *)
HexFromU8Upper(u) == IF u < 10 THEN u + 48 ELSE u - 10 + 65

HexFromU8(u) == IF u < 10 THEN u + 48 ELSE u - 10 + 97

RECURSIVE HexDecodeLoop(_, _, _, _)
HexDecodeLoop(s, i, word, v) ==
    IF i >= Len(s) THEN [word |-> word, v |-> v, panic |-> FALSE]
    ELSE LET bits == HexToU8(s[i + 1])
         IN  IF bits = -1 THEN [word |-> word, v |-> v, panic |-> TRUE]
             ELSE IF i % 2 = 0 THEN HexDecodeLoop(s, i + 1, Shl8(bits, 4), v)
             ELSE HexDecodeLoop(s, i + 1, word, Append(v, BitOr(word, bits)))

HexDecode(s) ==
    LET r == HexDecodeLoop(s, 0, 0, <<>>)
    IN  IF r.panic THEN PanicVal
        ELSE IF StrLen(s) % 2 = 1 THEN Val("Raw", Append(r.v, r.word))
        ELSE Val("Raw", r.v)

RECURSIVE HexEncodeLoop(_)
HexEncodeLoop(raw) ==
    IF raw = <<>> THEN <<>>
    ELSE LET b == Head(raw)
             upper == HexFromU8(Shr(BitAnd(b, 240), 4))
             lower == HexFromU8(BitAnd(b, 15))
         IN  <<upper, lower>> \o HexEncodeLoop(Tail(raw))

HexEncode(raw) == Val("Hex", HexEncodeLoop(raw))

---------------------------------------------------------------------------
(* Base64                                                                  *)

Base64Is(c) ==
    \/ 48 <= c /\ c <= 57        \* '0'..='9'
    \/ 97 <= c /\ c <= 122       \* 'a'..='z'
    \/ 65 <= c /\ c <= 90        \* 'A'..='Z'
    \/ c = 43                    \* '+'
    \/ c = 47                    \* '/'
    \/ c = 61                    \* '=' pad

Base64IsString(s) == \A i \in 1..Len(s) : Base64Is(s[i])

Base64New(s) == IF Base64IsString(s) THEN Val("Base64", s) ELSE NoneVal

(* the map vector from_u8 builds: 'A'..='Z', 'a'..='z', '0'..='9', '+', '/' *)
Base64Map ==
    [i \in 1..26 |-> 64 + i] \o [i \in 1..26 |-> 96 + i] \o [i \in 1..10 |-> 47 + i]
        \o <<43, 47>>

(* map[u as usize]; -1 stands for the panic of an index out of range       *)
Base64FromU8(u) == IF u + 1 \in DOMAIN Base64Map THEN Base64Map[u + 1] ELSE -1

(* Base64ToU8 with the digits mapped one too low                           *)
Base64ToU8DigitsLow(c) ==
    IF 65 <= c /\ c <= 90 THEN c - 65 + 0
    ELSE IF 97 <= c /\ c <= 122 THEN c - 97 + 26
    ELSE IF 48 <= c /\ c <= 57 THEN c - 48 + 51
    ELSE IF c = 43 THEN 62
    ELSE IF c = 47 THEN 63
    ELSE IF c = 61 THEN 0
    ELSE -1

(* -1 stands for the panic of the last arm                                 *)
Base64ToU8(c) ==
    IF 65 <= c /\ c <= 90 THEN c - 65 + 0
    ELSE IF 97 <= c /\ c <= 122 THEN c - 97 + 26
    ELSE IF 48 <= c /\ c <= 57 THEN c - 48 + 52
    ELSE IF c = 43 THEN 62
    ELSE IF c = 47 THEN 63
    ELSE IF c = 61 THEN 0
    ELSE -1

(* the state of the decode loop before its first character                 *)
DecodeStart == [v |-> <<>>, bit_index |-> 0, working_byte |-> 0, panic |-> FALSE]

(* '=' ends the decode loop                                                *)
DecodeBreaks(c) == c = 61

(* NextBitIndex advancing by the encoder's 2 bits                          *)
NextBitIndexByTwo(bit_index) == (bit_index + 2) % 8

(* bit_index = (bit_index + 6) % 8                                         *)
NextBitIndex(bit_index) == (bit_index + 6) % 8

(* one iteration of the decode loop on a character that is not '='         *)
DecodeBody(st, c) ==
    LET six_bits == Base64ToU8(c)
        wb6 == BitOr(st.working_byte, Shr(BitAnd(six_bits, 48), 4))
        wb4 == BitOr(st.working_byte, Shr(BitAnd(six_bits, 60), 2))
        wb2 == BitOr(st.working_byte, Shl8(BitAnd(six_bits, 63), 0))
        matched ==
            CASE st.bit_index = 0 ->
                   [st EXCEPT !.working_byte = Shl8(six_bits, 2)]
              [] st.bit_index = 6 ->
                   [st EXCEPT !.v = Append(@, wb6),
                              !.working_byte = Shl8(BitAnd(six_bits, 15), 4)]
              [] st.bit_index = 4 ->
                   [st EXCEPT !.v = Append(@, wb4),
                              !.working_byte = Shl8(BitAnd(six_bits, 3), 6)]
              [] st.bit_index = 2 ->
                   [st EXCEPT !.v = Append(@, wb2), !.working_byte = wb2]
              [] OTHER -> [st EXCEPT !.panic = TRUE]
    IN  IF six_bits = -1 THEN [st EXCEPT !.panic = TRUE]
        ELSE IF matched.panic THEN matched
        ELSE [matched EXCEPT !.bit_index = NextBitIndex(@)]

RECURSIVE DecodeLoop(_, _, _)
DecodeLoop(s, i, st) ==
    IF i > Len(s) \/ st.panic THEN st
    ELSE IF DecodeBreaks(s[i]) THEN st
    ELSE DecodeLoop(s, i + 1, DecodeBody(st, s[i]))

Base64Decode(s) ==
    LET st == DecodeLoop(s, 1, DecodeStart)
    IN  IF st.panic THEN PanicVal ELSE Val("Raw", st.v)

(* s.push(Base64::from_u8(u)), a panic of from_u8 kept                     *)
PushB64(st, u) ==
    IF st.panic \/ Base64FromU8(u) = -1 THEN [st EXCEPT !.panic = TRUE]
    ELSE [st EXCEPT !.s = Append(@, Base64FromU8(u))]

(* one iteration of the encode loop                                        *)
EncodeBody(st, byte) ==
    LET matched ==
            CASE st.bit_index % 6 = 0 ->
                   [PushB64(st, Shr(byte, 2)) EXCEPT !.buffer = Shl8(BitAnd(byte, 3), 4)]
              [] st.bit_index % 6 = 2 ->
                   [PushB64(st, BitOr(st.buffer, Shr(byte, 4)))
                        EXCEPT !.buffer = Shl8(BitAnd(byte, 15), 2)]
              [] st.bit_index % 6 = 4 ->
                   PushB64(PushB64(st, BitOr(st.buffer, Shr(byte, 6))), BitAnd(byte, 63))
              [] OTHER -> [st EXCEPT !.panic = TRUE]
    IN  IF matched.panic THEN matched
        ELSE [matched EXCEPT !.bit_index = @ + 8]

RECURSIVE EncodeLoop(_, _)
EncodeLoop(raw, st) ==
    IF raw = <<>> \/ st.panic THEN st
    ELSE EncodeLoop(Tail(raw), EncodeBody(st, Head(raw)))

(* the number of '=' appended: padding_bits / 2                            *)
PadCount(padding_bits) == padding_bits \div 2

Base64Encode(raw) ==
    LET st == EncodeLoop(raw, [s |-> <<>>, bit_index |-> 0, buffer |-> 0, panic |-> FALSE])
        starting_bits == Len(raw) * 8
        total_b64 == (starting_bits + 5) \div 6
        padding_bits == (total_b64 * 6) - starting_bits
        last == PushB64(st, st.buffer)
    IN  IF st.panic THEN PanicVal
        ELSE IF padding_bits # 0
             THEN IF last.panic THEN PanicVal
                  ELSE Val("Base64", last.s \o [i \in 1..PadCount(padding_bits) |-> 61])
        ELSE Val("Base64", st.s)

---------------------------------------------------------------------------
(* The codecs as a program: a text or a buffer is given, then constructors, *)
(* decoders and encoders are applied to the value held.                     *)

InputTexts == SeqsUpTo(TextChars, MaxText)

(* every byte value at each position of a group of three                   *)
EveryByte ==
    UNION {{<<b>>, <<b, 170>>, <<85, b>>, <<b, 85, 170>>, <<85, b, 170>>, <<85, 170, b>>} :
              b \in 0..255}

InputBuffers == SeqsUpTo(SampleBytes, MaxBuf) \cup EveryByte

Current == hist[Len(hist)]

Apply(name, v) ==
    /\ Len(ops) < MaxOps
    /\ hist' = Append(hist, v)
    /\ ops' = Append(ops, name)
    /\ UNCHANGED <<decVars, cipherVars, hamVars>>

InitCodec ==
    /\ \/ \E t \in InputTexts : hist = <<Val("String", t)>>
       \/ \E b \in InputBuffers : hist = <<Val("Raw", b)>>
    /\ ops = <<>>

DoAsciiNew == Current.kind = "String" /\ Apply("Ascii::new", AsciiNew(Current.data))

DoHexNew == Current.kind = "String" /\ Apply("Hex::new", HexNew(Current.data))

DoBase64New == Current.kind = "String" /\ Apply("Base64::new", Base64New(Current.data))

DoAsciiDecode == Current.kind = "Ascii" /\ Apply("Ascii::decode", AsciiDecode(Current.data))

DoHexDecode == Current.kind = "Hex" /\ Apply("Hex::decode", HexDecode(Current.data))

DoBase64Decode == Current.kind = "Base64" /\ Apply("Base64::decode", Base64Decode(Current.data))

DoAsciiEncode == Current.kind = "Raw" /\ Apply("Ascii::encode", AsciiEncode(Current.data))

DoHexEncode == Current.kind = "Raw" /\ Apply("Hex::encode", HexEncode(Current.data))

DoBase64Encode == Current.kind = "Raw" /\ Apply("Base64::encode", Base64Encode(Current.data))

(* From<Raw> for Ascii                                                      *)
DoAsciiFrom == Current.kind = "Raw" /\ Apply("Ascii::from", AsciiEncode(Current.data))

NextCodec ==
    \/ DoAsciiNew
    \/ DoHexNew
    \/ DoBase64New
    \/ DoAsciiDecode
    \/ DoHexDecode
    \/ DoBase64Decode
    \/ DoAsciiEncode
    \/ DoHexEncode
    \/ DoBase64Encode
    \/ DoAsciiFrom

---------------------------------------------------------------------------
(* Base64::decode, one iteration of its loop at a time.                    *)

IdleDec ==
    /\ b64 = NoneVal
    /\ bpc = "idle"
    /\ idx = 0
    /\ dst = DecodeStart

InitDec ==
    /\ \E t \in InputTexts : b64 = Val("String", t)
    /\ bpc = "new"
    /\ idx = 0
    /\ dst = DecodeStart

DecNew ==
    /\ bpc = "new"
    /\ b64' = Base64New(b64.data)
    /\ bpc' = IF b64'.kind = "Base64" THEN "loop" ELSE "rejected"
    /\ UNCHANGED <<idx, dst, codecVars, cipherVars, hamVars>>

DecStep ==
    /\ bpc = "loop"
    /\ idx < Len(b64.data)
    /\ ~DecodeBreaks(b64.data[idx + 1])
    /\ dst' = DecodeBody(dst, b64.data[idx + 1])
    /\ idx' = idx + 1
    /\ bpc' = IF dst'.panic THEN "panic" ELSE "loop"
    /\ UNCHANGED <<b64, codecVars, cipherVars, hamVars>>

DecBreak ==
    /\ bpc = "loop"
    /\ idx < Len(b64.data)
    /\ DecodeBreaks(b64.data[idx + 1])
    /\ bpc' = "done"
    /\ UNCHANGED <<b64, idx, dst, codecVars, cipherVars, hamVars>>

DecReturn ==
    /\ bpc = "loop"
    /\ idx = Len(b64.data)
    /\ bpc' = "done"
    /\ UNCHANGED <<b64, idx, dst, codecVars, cipherVars, hamVars>>

NextDec ==
    \/ DecNew
    \/ DecStep
    \/ DecBreak
    \/ DecReturn

---------------------------------------------------------------------------
(* Raw::hamming and Raw::hamming_normalized                                *)

(* HammingBits without the top bit                                         *)
HammingBitsShort == 0..6

(* for b in 0..8                                                           *)
HammingBits == 0..7

RECURSIVE Hamming(_, _)
Hamming(self, other) ==
    IF self = <<>> \/ other = <<>> THEN 0
    ELSE Cardinality({b \in HammingBits :
                        BitAnd(Head(self), 2^b) # BitAnd(Head(other), 2^b)})
         + Hamming(Tail(self), Tail(other))

(* f32 values: "inf" is f32::INFINITY, "nan" is 0.0 / 0.0, and a finite    *)
(* quotient of two small integers is kept as the exact fraction num / den  *)
(* (two such fractions that differ differ by far more than an f32 ulp).    *)
Inf == [kind |-> "inf", num |-> 0, den |-> 1]

HammingNormalized(self, other) ==
    IF Len(self) = 0 THEN [kind |-> "nan", num |-> 0, den |-> 1]
    ELSE [kind |-> "fin", num |-> Hamming(self, other), den |-> 8 * Len(self)]

(* Less as <=, so that a later equal distance replaces the best            *)
LessOrEqual(d, e) ==
    IF d.kind = "nan" \/ e.kind = "nan" THEN FALSE
    ELSE IF d.kind = "inf" THEN FALSE
    ELSE IF e.kind = "inf" THEN TRUE
    ELSE d.num * e.den <= e.num * d.den

(* d < e on f32                                                            *)
Less(d, e) ==
    IF d.kind = "nan" \/ e.kind = "nan" THEN FALSE
    ELSE IF d.kind = "inf" THEN FALSE
    ELSE IF e.kind = "inf" THEN TRUE
    ELSE d.num * e.den < e.num * d.den

(* Bytes of the operands of hamming: every bit position is set in one.     *)
HamBytes == {0, 1, 116, 128, 255}

(* "this is a test" and "wokka wokka!!!"                                   *)
ThisIsATest == <<116, 104, 105, 115, 32, 105, 115, 32, 97, 32, 116, 101, 115, 116>>

WokkaWokka == <<119, 111, 107, 107, 97, 32, 119, 111, 107, 107, 97, 33, 33, 33>>

HamOperands == SeqsUpTo(HamBytes, MaxHamLen) \cup {ThisIsATest, WokkaWokka}

NoDist == [kind |-> "none"]

IdleHam ==
    /\ lhs = <<>>
    /\ rhs = <<>>
    /\ dist = NoDist

InitHam ==
    /\ lhs \in HamOperands
    /\ rhs \in HamOperands
    /\ dist = NoDist

(* lhs.hamming(&rhs), rhs.hamming(&lhs) and lhs.hamming(&lhs)              *)
DoHamming ==
    /\ dist = NoDist
    /\ dist' = [kind |-> "hamming", ab |-> Hamming(lhs, rhs),
                ba |-> Hamming(rhs, lhs), aa |-> Hamming(lhs, lhs)]
    /\ UNCHANGED <<lhs, rhs, codecVars, decVars, cipherVars>>

DoHammingNormalized ==
    /\ dist = NoDist
    /\ dist' = [kind |-> "normalized", ab |-> HammingNormalized(lhs, rhs)]
    /\ UNCHANGED <<lhs, rhs, codecVars, decVars, cipherVars>>

NextHam ==
    \/ DoHamming
    \/ DoHammingNormalized

---------------------------------------------------------------------------
(* xor and find_key_len                                                    *)

(* NextKi that never advances                                              *)
NextKiStuck(ki, k) == ki

(* ki = (ki + 1) % key.len()                                               *)
NextKi(ki, k) == (ki + 1) % Len(k)

(* the loop of xor: key[ki] panics when ki is no index of the key          *)
RECURSIVE XorLoop(_, _, _, _)
XorLoop(s, k, ki, r) ==
    IF s = <<>> THEN Val("Raw", r)
    ELSE IF ki + 1 \notin DOMAIN k THEN PanicVal
    ELSE XorLoop(Tail(s), k, NextKi(ki, k), Append(r, BitXor(Head(s), k[ki + 1])))

Xor(s, k) == XorLoop(s, k, 0, <<>>)

(* the factor 0.05 of top_n, in hundredths                                 *)
TopPercent == 5

Max(a, b) == IF a >= b THEN a ELSE b

(* ((hlim - llim) as f32 * 0.05).max(1.0) as usize                         *)
TopN(lo, hi) == Max(1, ((hi - lo) * TopPercent) \div 100)

(* the distance stored for key length n                                    *)
Distance(raw, n) ==
    LET blocks == Len(raw) \div n
    IN  IF blocks < 2 THEN Inf
        ELSE HammingNormalized(SubSeq(raw, 1, n), SubSeq(raw, n + 1, 2 * n))

(* for n in llim..=hlim: distances[n - llim]                               *)
RECURSIVE Distances(_, _, _)
Distances(raw, n, hi) ==
    IF n > hi THEN <<>>
    ELSE <<Distance(raw, n)>> \o Distances(raw, n + 1, hi)

(* guesses.contains(&i)                                                    *)
Contains(guesses, i) == \E j \in 1..Len(guesses) : guesses[j] = i

(* whether the scan of a round takes the distance at index i as its best   *)
Better(d, best, guesses, i) == Less(d, best[1]) /\ ~Contains(guesses, i)

(* the scan of one round over distances.iter().enumerate(), from index i   *)
RECURSIVE ScanBest(_, _, _, _, _)
ScanBest(distances, lo, guesses, i, best) ==
    IF i >= Len(distances) THEN best
    ELSE IF Better(distances[i + 1], best, guesses, i)
         THEN ScanBest(distances, lo, guesses, i + 1, <<distances[i + 1], i + lo>>)
    ELSE ScanBest(distances, lo, guesses, i + 1, best)

(* for _ in 0..top_n                                                       *)
RECURSIVE Rounds(_, _, _, _)
Rounds(distances, lo, top_n, guesses) ==
    IF top_n = 0 THEN guesses
    ELSE Rounds(distances, lo, top_n - 1,
                Append(guesses, ScanBest(distances, lo, guesses, 0, <<Inf, 0>>)[2]))

(* assert!(llim <= hlim) panics, and so does raw.len() / n for n = 0       *)
FindKeyLen(raw, lo, hi) ==
    IF ~(lo <= hi) THEN PanicVal
    ELSE IF lo = 0 THEN PanicVal
    ELSE Val("Guesses", Rounds(Distances(raw, lo, hi), lo, TopN(lo, hi), <<>>))

(* Plaintext and key bytes of the bounded inputs.                          *)
CipherBytes == {0, 3}

KeyBytes == {65, 66}

(* a sequence and a key with high bits set                                 *)
HighBitsSeq == <<255, 128, 170, 85, 1>>

HighBitsKey == <<255, 15>>

(* "Secret Message!" and "ABC"                                             *)
SecretMessage == <<83, 101, 99, 114, 101, 116, 32, 77, 101, 115, 115, 97, 103, 101, 33>>

KeyABC == <<65, 66, 67>>

Plaintexts == SeqsUpTo(CipherBytes, MaxSeq) \cup {SecretMessage, HighBitsSeq}

Keys == SeqsUpTo(KeyBytes, MaxKey) \cup {KeyABC, HighBitsKey}

(* the shortest range with top_n = 2                                       *)
TwoRoundSpan == 2 * (100 \div TopPercent)

(* search ranges <<llim, hlim>>: short ones, the test's, ones with two     *)
(* rounds, one starting at 0 and one with llim > hlim                      *)
Ranges ==
    {<<l, l + MaxSpan>> : l \in 1..MaxLow}
        \cup {<<1, 1>>, <<1, 5>>, <<1, 1 + TwoRoundSpan>>, <<0, MaxSpan>>,
              <<MaxLow, MaxLow - 1>>}

IdleCipher ==
    /\ seq = <<>>
    /\ key = <<>>
    /\ llim = 0
    /\ hlim = 0
    /\ cur = Val("Raw", <<>>)
    /\ calls = <<>>

InitCipher ==
    /\ seq \in Plaintexts
    /\ key \in Keys
    /\ llim = 0
    /\ hlim = 0
    /\ cur = Val("Raw", seq)
    /\ calls = <<>>

(* xor(&cur, &key): on the sequence, then on the result                    *)
DoXor ==
    /\ calls \in {<<>>, <<"xor">>}
    /\ cur.kind = "Raw"
    /\ cur' = Xor(cur.data, key)
    /\ calls' = Append(calls, "xor")
    /\ UNCHANGED <<seq, key, llim, hlim, codecVars, decVars, hamVars>>

(* find_key_len(&cur, llim, hlim): on the sequence or on the result of xor *)
DoFindKeyLen ==
    /\ calls \in {<<>>, <<"xor">>}
    /\ cur.kind = "Raw"
    /\ \E r \in Ranges :
        /\ llim' = r[1]
        /\ hlim' = r[2]
        /\ cur' = FindKeyLen(cur.data, r[1], r[2])
    /\ calls' = Append(calls, "find_key_len")
    /\ UNCHANGED <<seq, key, codecVars, decVars, hamVars>>

NextCipher ==
    \/ DoXor
    \/ DoFindKeyLen

---------------------------------------------------------------------------
(* The specifications: each runs one part of the library, the others idle. *)

IdleCodec ==
    /\ hist = <<NoneVal>>
    /\ ops = <<>>

StartCodec == InitCodec /\ IdleDec /\ IdleCipher /\ IdleHam

StartDec == IdleCodec /\ InitDec /\ IdleCipher /\ IdleHam

StartCipher == IdleCodec /\ IdleDec /\ InitCipher /\ IdleHam

StartHam == IdleCodec /\ IdleDec /\ IdleCipher /\ InitHam

SpecCodec == StartCodec /\ [][NextCodec]_vars

SpecDec == StartDec /\ [][NextDec]_vars

SpecCipher == StartCipher /\ [][NextCipher]_vars

SpecHam == StartHam /\ [][NextHam]_vars

---------------------------------------------------------------------------
(* Properties of the codecs (SpecCodec).                                   *)

(* hist[i] was given operations a, b in a row                              *)
Chain2(i, a, b) == i + 1 <= Len(ops) /\ ops[i] = a /\ ops[i + 1] = b

(* hist[i] was given operations a, b, c in a row                           *)
Chain3(i, a, b, c) == Chain2(i, a, b) /\ i + 2 <= Len(ops) /\ ops[i + 2] = c

(* C1: for every byte buffer b, of every length and with every byte        *)
(* value, Base64 decode(Base64 encode(b)) equals b.                        *)
C1_Base64DecodeEncode ==
    \A i \in 1..Len(ops) :
        (hist[i].kind = "Raw" /\ Chain2(i, "Base64::encode", "Base64::decode"))
            => hist[i + 2] = hist[i]

C1_Witness ==
    /\ ops = <<"Base64::encode", "Base64::decode">>
    /\ hist[1] = Val("Raw", <<200, 255>>)
    /\ hist[2] = Val("Base64", <<121, 80, 56, 61>>)
    /\ hist[3] = hist[1]

(* the text has even length and no uppercase letter                        *)
HexCanonical(t) == Len(t) % 2 = 0 /\ \A i \in 1..Len(t) : ~(65 <= t[i] /\ t[i] <= 70)

(* the number of '=' at the end of the text                                *)
RECURSIVE TrailingPads(_)
TrailingPads(t) ==
    IF t = <<>> \/ t[Len(t)] # 61 THEN 0
    ELSE 1 + TrailingPads(SubSeq(t, 1, Len(t) - 1))

(* the position of a base64 character in the alphabet A-Z a-z 0-9 + /      *)
AlphabetIndex(c) ==
    CHOOSE u \in 0..63 :
        \/ u < 26 /\ c = 65 + u
        \/ 26 <= u /\ u < 52 /\ c = 97 + (u - 26)
        \/ 52 <= u /\ u < 62 /\ c = 48 + (u - 52)
        \/ u = 62 /\ c = 43
        \/ u = 63 /\ c = 47

(* the text is whole groups of four, '=' only as its last one or two       *)
(* characters, and the bits of the last data character that belong to no   *)
(* byte are zero                                                           *)
Base64Canonical(t) ==
    LET p == TrailingPads(t)
        n == Len(t) - p
    IN  /\ Len(t) % 4 = 0
        /\ p <= 2
        /\ \A i \in 1..n : t[i] # 61
        /\ p = 1 => AlphabetIndex(t[n]) % 4 = 0
        /\ p = 2 => AlphabetIndex(t[n]) % 16 = 0

(* C2 as stated: for every text t a validating constructor accepts,        *)
(* encode(decode(t)) = t, for hex, for base64 and for ASCII.               *)
C2_EncodeDecodeEveryText ==
    \A i \in 1..Len(ops) :
        /\ (Chain3(i, "Hex::new", "Hex::decode", "Hex::encode") /\ hist[i + 1].kind = "Hex")
              => hist[i + 3] = hist[i + 1]
        /\ (Chain3(i, "Base64::new", "Base64::decode", "Base64::encode")
                /\ hist[i + 1].kind = "Base64")
              => hist[i + 3] = hist[i + 1]
        /\ (Chain3(i, "Ascii::new", "Ascii::decode", "Ascii::encode")
                /\ hist[i + 1].kind = "Ascii")
              => hist[i + 3] = hist[i + 1]

(* C2 amended: encode(decode(t)) = t for every accepted ASCII text; for an *)
(* accepted hex text exactly when it has even length and no uppercase      *)
(* letter; for an accepted base64 text exactly when it is whole groups of  *)
(* four with '=' only as its last one or two characters and zero unused    *)
(* bits in its last data character.                                        *)
C2_EncodeDecodeCanonical ==
    \A i \in 1..Len(ops) :
        /\ (Chain3(i, "Hex::new", "Hex::decode", "Hex::encode") /\ hist[i + 1].kind = "Hex")
              => (hist[i + 3] = hist[i + 1] <=> HexCanonical(hist[i + 1].data))
        /\ (Chain3(i, "Base64::new", "Base64::decode", "Base64::encode")
                /\ hist[i + 1].kind = "Base64")
              => (hist[i + 3] = hist[i + 1] <=> Base64Canonical(hist[i + 1].data))
        /\ (Chain3(i, "Ascii::new", "Ascii::decode", "Ascii::encode")
                /\ hist[i + 1].kind = "Ascii")
              => hist[i + 3] = hist[i + 1]

C2_Witness ==
    /\ ops = <<"Base64::new", "Base64::decode", "Base64::encode">>
    /\ hist[1] = Val("String", <<102, 48, 65, 61>>)
    /\ hist[3] = Val("Raw", <<127, 64>>)
    /\ hist[4] = hist[2]

(* C6 as stated: every value of the ASCII representation a public          *)
(* operation produces holds only characters with code point below 128.     *)
C6_AsciiValuesAreAscii ==
    \A i \in 1..Len(hist) : hist[i].kind = "Ascii" => IsAscii(hist[i].data)

---------------------------------------------------------------------------
(* Properties of the Base64::decode loop (SpecDec).                        *)

(* the characters before the first '='                                     *)
RECURSIVE DataPrefixLen(_)
DataPrefixLen(t) == IF t = <<>> \/ Head(t) = 61 THEN 0 ELSE 1 + DataPrefixLen(Tail(t))

(* the cycle 0, 6, 4, 2, 0                                                 *)
CycleNext(o) == CASE o = 0 -> 6 [] o = 6 -> 4 [] o = 4 -> 2 [] o = 2 -> 0

C10_Offsets ==
    /\ bpc # "panic"
    /\ ~dst.panic
    /\ dst.bit_index \in {0, 6, 4, 2}
    /\ bpc = "done" => idx = DataPrefixLen(b64.data)

C10_Iteration ==
    idx' = idx + 1 =>
        /\ dst'.bit_index = CycleNext(dst.bit_index)
        /\ dst.bit_index \in {6, 4, 2} => Len(dst'.v) = Len(dst.v) + 1
        /\ dst.bit_index = 0 => dst'.v = dst.v

(* C10: while decoding a value Base64::new accepted, the bit offset before *)
(* each consumed character is one of 0, 6, 4, 2 and advances in the cycle  *)
(* 0, 6, 4, 2, 0; a byte is emitted exactly at offsets 6, 4 and 2;         *)
(* decoding stops at the first '='; no fatal branch is reached.            *)
C10_DecodeCycle == []C10_Offsets /\ [][C10_Iteration]_vars

C10_Witness ==
    /\ bpc = "done"
    /\ b64 = Val("Base64", <<102, 48, 61, 65>>)
    /\ idx = 2
    /\ dst.bit_index = 4
    /\ dst.v = <<127>>

---------------------------------------------------------------------------
(* Properties of hamming (SpecHam).                                        *)

Min(a, b) == IF a <= b THEN a ELSE b

(* the number of bit positions in which two bytes differ                   *)
RECURSIVE DiffBits(_, _)
DiffBits(x, y) ==
    IF x = 0 /\ y = 0 THEN 0
    ELSE (IF x % 2 = y % 2 THEN 0 ELSE 1) + DiffBits(x \div 2, y \div 2)

RECURSIVE SumDiffBits(_, _, _)
SumDiffBits(a, b, n) ==
    IF n = 0 THEN 0 ELSE DiffBits(a[n], b[n]) + SumDiffBits(a, b, n - 1)

(* C5: hamming(a, b) is the sum over the indices below min(len(a), len(b)) *)
(* of the number of bit positions in which a[i] and b[i] differ; so        *)
(* hamming(a, a) = 0, hamming(a, b) = hamming(b, a) and hamming(a, b) <=   *)
(* 8 * min(len(a), len(b)).                                                *)
C5_Hamming ==
    dist.kind = "hamming" =>
        /\ dist.ab = SumDiffBits(lhs, rhs, Min(Len(lhs), Len(rhs)))
        /\ dist.aa = 0
        /\ dist.ab = dist.ba
        /\ dist.ab <= 8 * Min(Len(lhs), Len(rhs))

C5_Witness ==
    /\ dist.kind = "hamming"
    /\ lhs = ThisIsATest
    /\ rhs = WokkaWokka
    /\ dist.ab = 37

---------------------------------------------------------------------------
(* Properties of xor and find_key_len (SpecCipher).                        *)

(* the exclusive or of two bytes, bit by bit                               *)
RECURSIVE XorRef(_, _)
XorRef(x, y) ==
    IF x = 0 /\ y = 0 THEN 0
    ELSE (IF x % 2 = y % 2 THEN 0 ELSE 1) + (2 * XorRef(x \div 2, y \div 2))

(* C3: for a non-empty key, xor(s, k) has the length of s, its byte i is   *)
(* s[i] XOR k[i mod len(k)], and xor(xor(s, k), k) = s.                    *)
C3_Xor ==
    Len(key) >= 1 =>
        /\ calls = <<"xor">> =>
              /\ cur.kind = "Raw"
              /\ Len(cur.data) = Len(seq)
              /\ \A i \in 1..Len(seq) :
                    cur.data[i] = XorRef(seq[i], key[((i - 1) % Len(key)) + 1])
        /\ calls = <<"xor", "xor">> => cur = Val("Raw", seq)

C3_Witness ==
    /\ calls = <<"xor", "xor">>
    /\ key = <<65, 66>>
    /\ seq = <<0, 3, 3>>
    /\ cur = Val("Raw", seq)

(* C9 as stated: xor(s, k) with a zero-length key ends in a fatal failure  *)
(* for every s, the empty buffer included.                                 *)
C9_EmptyKeyIsFatal ==
    (calls = <<"xor">> /\ key = <<>>) => cur = PanicVal

(* find_key_len has returned its list                                      *)
Searched == Len(calls) >= 1 /\ calls[Len(calls)] = "find_key_len" /\ cur.kind = "Guesses"

(* C7 as stated: no selection round of find_key_len picks a candidate an   *)
(* earlier round picked, so the candidate lengths in the returned list are *)
(* pairwise distinct (an element outside llim..hlim is C8's subject).      *)
C7_GuessesDistinct ==
    (Searched /\ 1 <= llim /\ llim <= hlim) =>
        \A i, j \in 1..Len(cur.data) :
            (i # j /\ llim <= cur.data[i] /\ cur.data[i] <= hlim) => cur.data[i] # cur.data[j]

(* C8 as stated: every length find_key_len returns is in llim..hlim.       *)
C8_GuessesInRange ==
    (Searched /\ 1 <= llim /\ llim <= hlim) =>
        \A i \in 1..Len(cur.data) : llim <= cur.data[i] /\ cur.data[i] <= hlim

(* the bits that differ between the first two n-byte blocks of c           *)
BlockDiff(c, n) == SumDiffBits(SubSeq(c, 1, n), SubSeq(c, n + 1, 2 * n), n)

(* candidate m scores strictly below candidate n: m has two blocks, and n  *)
(* has not or BlockDiff(m) / (8 m) < BlockDiff(n) / (8 n)                  *)
ScoresBelow(c, m, n) ==
    /\ 2 * m <= Len(c)
    /\ \/ 2 * n > Len(c)
       \/ BlockDiff(c, m) * n < BlockDiff(c, n) * m

(* the ciphertext of the search and the key length                         *)
Ciphertext == [i \in 1..Len(seq) |-> XorRef(seq[i], key[((i - 1) % Len(key)) + 1])]

C4_Case ==
    /\ calls = <<"xor", "find_key_len">>
    /\ cur.kind = "Guesses"
    /\ Len(key) >= 1
    /\ 1 <= llim
    /\ llim <= Len(key)
    /\ Len(key) <= hlim
    /\ Len(seq) >= 4 * Len(key)

(* C4 as stated: with len(s) >= 4 K and low <= K <= high, the first        *)
(* element of find_key_len(xor(s, k), low, high) is K.                     *)
C4_FirstIsKeyLen == C4_Case => cur.data[1] = Len(key)

(* C4 amended: the first element is K exactly when the normalized Hamming  *)
(* distance of the first two K-byte blocks of the ciphertext is strictly   *)
(* below that of every shorter candidate of the range and not above that   *)
(* of any longer one; it is 3 in the test's instance.                      *)
C4_FirstIsKeyLenIfBest ==
    C4_Case =>
        /\ cur.data[1] = Len(key) <=>
              /\ \A n \in llim..(Len(key) - 1) : ScoresBelow(Ciphertext, Len(key), n)
              /\ \A n \in (Len(key) + 1)..hlim : ~ScoresBelow(Ciphertext, n, Len(key))
        /\ (seq = SecretMessage /\ key = KeyABC /\ llim = 1 /\ hlim = 5) => cur.data[1] = 3

C4_Witness ==
    /\ C4_Case
    /\ seq = SecretMessage
    /\ key = KeyABC
    /\ llim = 1
    /\ hlim = 5
    /\ cur.data = <<3>>

=============================================================================
